---- MODULE Spec2Model ----
(***************************************************************************)
(* hatcog: the outbound IRC connection layer.                              *)
(*                                                                         *)
(* Two versions of the connection entity live in the repository:           *)
(*   - src/unnamed/part_000: ExternalManager + External (read deadline     *)
(*     re-armed per read, EOF handled, Latin-1 fallback decoding);         *)
(*   - src/hatcogd/external.go: External with USER/NICK registration and   *)
(*     an isClosing flag polled by the read loop.                          *)
(* The variable `variant` says which of the two is built.  Definitions     *)
(* that model src/hatcogd/external.go carry the prefix hatcogd_.           *)
(*                                                                         *)
(* A Go string is modelled as the sequence of its bytes (0..255).          *)
(***************************************************************************)
EXTENDS Integers, Sequences, FiniteSets, TLC

(***************************************************************************)
(* Bounds of the model.                                                    *)
(***************************************************************************)
\* longest byte sequence handed to toUnicode in SpecUnicode
MaxBytes == 3
\* dials and sends the callers ask for plus events on the server side (a
\* chunk written, the connection closed), in all
MaxEvents == 3
\* lines the outbound channel holds before a push suspends
ChanCap == 1
\* longest slash command handed to doCommand in SpecCommand, in tokens
MaxCmdLen == 4
\* goroutines that call the Manager at once in SpecRace
NumThreads == 2

VARIABLES
  variant,        \* which External is built: "manager" (part_000) or "hatcogd"
  proc,           \* the process: "running", "fatal" (log.Fatal) or "panic"
  connections,    \* ExternalManager.connections: address -> Connection id, 0 = absent
  connectionsNil, \* ExternalManager.connections is the nil map
  conns,          \* the External objects ever built, by id: their fields
  net,            \* per Connection, the transport: what the socket carried
  loop,           \* per Connection, Consume: position, locals, bufio buffer
  fromServer,     \* the outbound channel
  nev,            \* dials, sends asked for and server events so far
  last,           \* the last call made: its name, its Connection, its
                  \* argument, and whether the call before was the same
  uni,            \* SpecUnicode: the bytes under test and toUnicode's result
  thr             \* SpecRace: the callers' goroutines, each inside a call or idle

vars == <<variant, proc, connections, connectionsNil, conns, net, loop,
          fromServer, nev, last, uni, thr>>

(***************************************************************************)
(* Text as bytes.                                                          *)
(***************************************************************************)
\* the printable ASCII characters in code order, starting at 32 (space);
\* the backquote (96) is left out
Ascii ==
  << " ", "!", "\"", "#", "$", "%", "&", "'", "(", ")", "*", "+", ",", "-", ".", "/",
     "0", "1", "2", "3", "4", "5", "6", "7", "8", "9", ":", ";", "<", "=", ">", "?",
     "@", "A", "B", "C", "D", "E", "F", "G", "H", "I", "J", "K", "L", "M", "N", "O",
     "P", "Q", "R", "S", "T", "U", "V", "W", "X", "Y", "Z", "[", "\\", "]", "^", "_",
     "", "a", "b", "c", "d", "e", "f", "g", "h", "i", "j", "k", "l", "m", "n", "o",
     "p", "q", "r", "s", "t", "u", "v", "w", "x", "y", "z", "{", "|", "}", "~" >>

\* the byte of one printable character
Ord(ch) == 31 + (CHOOSE i \in 1..Len(Ascii) : Ascii[i] = ch)

\* the bytes of a text given as a tuple of one-character strings
B(chars) == [i \in 1..Len(chars) |-> Ord(chars[i])]

NL  == <<10>>    \* "\n"
SOH == <<1>>     \* "\u0001", a single byte in UTF-8

\* does s start with pre?
HasPrefix(s, pre) ==
  /\ Len(s) >= Len(pre)
  /\ SubSeq(s, 1, Len(pre)) = pre

\* index of the first occurrence of sub in s, 0 when there is none
Index(s, sub) ==
  LET hits == {i \in 1..(Len(s) - Len(sub) + 1) : SubSeq(s, i, i + Len(sub) - 1) = sub}
  IN  IF hits = {} THEN 0 ELSE CHOOSE i \in hits : \A j \in hits : i <= j

(***************************************************************************)
(* UTF-8 (unicode/utf8).                                                   *)
(***************************************************************************)
IsCont(b) == b >= 128 /\ b <= 191

\* length of the well-formed UTF-8 encoding at the head of s, 0 when the
\* head of s is not one (the table of utf8.Valid: no overlongs, no surrogates,
\* nothing above U+10FFFF)
EncLen(s) ==
  LET b  == s[1]
      n  == Len(s)
  IN  IF b < 128 THEN 1
      ELSE IF b >= 194 /\ b <= 223
        THEN IF n >= 2 /\ IsCont(s[2]) THEN 2 ELSE 0
      ELSE IF b >= 224 /\ b <= 239
        THEN IF /\ n >= 3
                /\ s[2] >= (IF b = 224 THEN 160 ELSE 128)
                /\ s[2] <= (IF b = 237 THEN 159 ELSE 191)
                /\ IsCont(s[3])
             THEN 3 ELSE 0
      ELSE IF b >= 240 /\ b <= 244
        THEN IF /\ n >= 4
                /\ s[2] >= (IF b = 240 THEN 144 ELSE 128)
                /\ s[2] <= (IF b = 244 THEN 143 ELSE 191)
                /\ IsCont(s[3])
                /\ IsCont(s[4])
             THEN 4 ELSE 0
      ELSE 0

RECURSIVE Valid(_)
\* utf8.Valid
Valid(s) ==
  IF s = <<>> THEN TRUE
  ELSE LET k == EncLen(s)
       IN  IF k = 0 THEN FALSE ELSE Valid(SubSeq(s, k + 1, Len(s)))

\* the code point of the k-byte encoding at the head of s
RuneAt(s, k) ==
  IF k = 1 THEN s[1]
  ELSE IF k = 2 THEN (s[1] - 192) * 64 + (s[2] - 128)
  ELSE IF k = 3 THEN (s[1] - 224) * 4096 + (s[2] - 128) * 64 + (s[3] - 128)
  ELSE (s[1] - 240) * 262144 + (s[2] - 128) * 4096 + (s[3] - 128) * 64 + (s[4] - 128)

RECURSIVE Runes(_)
\* []rune(s): the code points of a Go string; each byte that starts no
\* well-formed encoding yields U+FFFD
Runes(s) ==
  IF s = <<>> THEN <<>>
  ELSE LET k == EncLen(s)
       IN  IF k = 0 THEN <<65533>> \o Runes(Tail(s))
           ELSE <<RuneAt(s, k)>> \o Runes(SubSeq(s, k + 1, Len(s)))

\* the UTF-8 encoding of one code point (utf8.EncodeRune)
EncodeRune(r) ==
  IF r < 128 THEN <<r>>
  ELSE IF r < 2048 THEN <<192 + (r \div 64), 128 + (r % 64)>>
  ELSE IF r < 65536
    THEN <<224 + (r \div 4096), 128 + ((r \div 64) % 64), 128 + (r % 64)>>
  ELSE <<240 + (r \div 262144), 128 + ((r \div 4096) % 64),
         128 + ((r \div 64) % 64), 128 + (r % 64)>>

RECURSIVE RunesToString(_)
\* string(runes)
RunesToString(runes) ==
  IF runes = <<>> THEN <<>>
  ELSE EncodeRune(Head(runes)) \o RunesToString(Tail(runes))

\* a bug toUnicode could have: no Latin-1 fallback
toUnicode_NoFallback(data) == data

\* toUnicode: valid UTF-8 is kept; otherwise every byte becomes the code
\* point of the same value
toUnicode(data) ==
  IF Valid(data)
    THEN data
    ELSE RunesToString([index \in 1..Len(data) |-> data[index]])

(***************************************************************************)
(* Inputs.                                                                 *)
(***************************************************************************)
Addrs == {"irc.a:6667", "irc.b:6697"}

Passwords == {B(<<"p", "w">>), B(<<"x">>)}

Target == B(<<"#", "c">>)
Msg    == B(<<"h", "i">>)

\* the slash command the callers run in Spec (SpecCommand runs many)
CmdMsg   == B(<<"/", "m", "s", "g", " ", "a">>)
Commands == {CmdMsg}

\* what the server writes: whole lines, and the head of a line
PingData    == B(<<"P", "I", "N", "G", " ", ":", "s">>) \o NL
VersionData == B(<<":", "u", " ", "V", "E", "R", "S", "I", "O", "N">>) \o NL
BadData     == B(<<":", "x">>) \o NL
FragHead    == B(<<"P", "I">>)
Chunks      == {PingData, VersionData, BadData, FragHead}

\* the client version string (VERSION, a constant of package main)
VERSION == B(<<"0", ".", "1">>)

NoLine == [Command |-> <<>>, User |-> <<>>, Raw |-> <<>>]
NoCall == [op |-> "init", c |-> 0, arg |-> <<>>, again |-> FALSE]
NoThreads == <<>>
NoUni  == [data |-> <<>>, result |-> <<>>, done |-> FALSE]

(***************************************************************************)
(* ParseLine: the IRC line parser, a collaborator outside these files.     *)
(* "[:user ]COMMAND[ rest]" gives a Line; a line with no command is        *)
(* rejected.                                                               *)
(***************************************************************************)
\* s up to its first space (all of s when it has none)
FirstField(s) ==
  LET sp == Index(s, B(<<" ">>))
  IN  IF sp = 0 THEN s ELSE SubSeq(s, 1, sp - 1)

\* s after its first space (empty when it has none)
AfterFirstField(s) ==
  LET sp == Index(s, B(<<" ">>))
  IN  IF sp = 0 THEN <<>> ELSE SubSeq(s, sp + 1, Len(s))

ParseLine(content) ==
  LET text   == IF content # <<>> /\ content[Len(content)] = 10
                  THEN SubSeq(content, 1, Len(content) - 1) ELSE content
      prefix == text # <<>> /\ text[1] = Ord(":")
      user   == IF prefix THEN Tail(FirstField(text)) ELSE <<>>
      rest   == IF prefix THEN AfterFirstField(text) ELSE text
      cmnd   == FirstField(rest)
  IN  IF cmnd = <<>>
        THEN [ok |-> FALSE, line |-> NoLine]
        ELSE [ok |-> TRUE, line |-> [Command |-> cmnd, User |-> user, Raw |-> content]]

(***************************************************************************)
(* External: the operations on one Connection, as functions of the part    *)
(* of the state they work on, s = [conns, net, proc].  After log.Fatal or  *)
(* a panic nothing further runs.                                           *)
(***************************************************************************)
Here == [conns |-> conns, net |-> net, proc |-> proc]

Commit(s) ==
  /\ conns' = s.conns
  /\ net' = s.net
  /\ proc' = s.proc

\* rawLog.Print(" -->", msg)
LogOut(msg) == B(<<" ", "-", "-", ">">>) \o msg
\* rawLog.Println(content)
LogIn(content) == content \o NL

\* SendRaw: add "\n", log the bytes as outbound, write them to the socket;
\* a write on a closed socket fails, which is fatal
External_SendRaw(s, c, msg) ==
  IF s.proc # "running" THEN s
  ELSE LET m      == msg \o NL
           logged == [s EXCEPT !.conns[c].rawLog = Append(@, LogOut(m))]
       IN  IF s.conns[c].socket = "open"
             THEN [logged EXCEPT !.net[c].wire = Append(@, m)]
             ELSE [logged EXCEPT !.proc = "fatal"]

\* SendMessage
External_SendMessage(s, c, channel, msg) ==
  External_SendRaw(s, c, B(<<"P", "R", "I", "V", "M", "S", "G", " ">>) \o channel
                           \o B(<<" ", ":">>) \o msg)

\* SendAction
External_SendAction(s, c, channel, msg) ==
  External_SendRaw(s, c, B(<<"P", "R", "I", "V", "M", "S", "G", " ">>) \o channel
                           \o B(<<" ", ":">>) \o SOH
                           \o B(<<"A", "C", "T", "I", "O", "N", " ">>) \o msg \o SOH)

NickServ == B(<<"N", "i", "c", "k", "S", "e", "r", "v">>)

\* a bug Identify could have: the flag is not consulted
External_Identify_Always(s, c, password) ==
  LET sent == External_SendMessage(s, c, NickServ,
                B(<<"i", "d", "e", "n", "t", "i", "f", "y", " ">>) \o password)
  IN  IF sent.proc = "running"
        THEN [sent EXCEPT !.conns[c].isIdentified = TRUE]
        ELSE sent

\* Identify (the same text in both files)
External_Identify(s, c, password) ==
  IF ~s.conns[c].isIdentified
    THEN LET sent == External_SendMessage(s, c, NickServ,
                       B(<<"i", "d", "e", "n", "t", "i", "f", "y", " ">>) \o password)
         IN  IF sent.proc = "running"
               THEN [sent EXCEPT !.conns[c].isIdentified = TRUE]
               ELSE sent
    ELSE s

\* strings.Replace(text, old, new, 1)
ReplaceFirst(text, old, new) ==
  LET i == Index(text, old)
  IN  IF i = 0 THEN text
      ELSE SubSeq(text, 1, i - 1) \o new \o SubSeq(text, i + Len(old), Len(text))

LitMsg     == B(<<"m", "s", "g">>)
LitPrivmsg == B(<<"p", "r", "i", "v", "m", "s", "g">>)

\* doCommand of part_000: drop the first byte (content[1:] panics on the
\* empty text), rewrite a first field "msg" to "privmsg", send
External_doCommand(s, c, content) ==
  IF content = <<>> THEN [s EXCEPT !.proc = "panic"]
  ELSE LET rest == Tail(content)
           word == FirstField(rest)
       IN  External_SendRaw(s, c,
             IF word = LitMsg THEN ReplaceFirst(rest, LitMsg, LitPrivmsg) ELSE rest)

\* doCommand of hatcogd/external.go: drop the first byte, send
hatcogd_doCommand(s, c, content) ==
  IF content = <<>> THEN [s EXCEPT !.proc = "panic"]
  ELSE External_SendRaw(s, c, Tail(content))

\* External.Close: socket.Close() (closing a closed socket only returns an
\* error)
External_Close(s, c) == [s EXCEPT !.conns[c].socket = "closed"]

\* Quit (hatcogd/external.go)
hatcogd_Quit(s, c) == [s EXCEPT !.conns[c].isClosing = TRUE]

Pong == B(<<"P", "O", "N", "G", " ", "g", "o", "i", "r", "c">>)

VersionMsg(line) ==
  B(<<"N", "O", "T", "I", "C", "E", " ">>) \o line.User \o B(<<" ", ":">>) \o SOH
    \o B(<<"V", "E", "R", "S", "I", "O", "N", " ">>) \o VERSION \o SOH \o NL

\* act of part_000: reply to PING and VERSION; every line goes on to the
\* channel (forward: the push that follows)
External_act(s, c, line) ==
  [s |-> IF line.Command = B(<<"P", "I", "N", "G">>)
           THEN External_SendRaw(s, c, Pong)
         ELSE IF line.Command = B(<<"V", "E", "R", "S", "I", "O", "N">>)
           THEN External_SendRaw(s, c, VersionMsg(line))
         ELSE s,
   forward |-> TRUE]

\* act of hatcogd/external.go: after the PONG it returns
hatcogd_act(s, c, line) ==
  [s |-> IF line.Command = B(<<"P", "I", "N", "G">>)
           THEN External_SendRaw(s, c, Pong)
         ELSE IF line.Command = B(<<"V", "E", "R", "S", "I", "O", "N">>)
           THEN External_SendRaw(s, c, VersionMsg(line))
         ELSE s,
   forward |-> line.Command # B(<<"P", "I", "N", "G">>)]


(***************************************************************************)
(* Construction.                                                           *)
(***************************************************************************)
NewConn(server) ==
  [server |-> server, socket |-> "open", isIdentified |-> FALSE,
   isClosing |-> FALSE, rawLog |-> <<>>]
NewNet == [wire |-> <<>>, sockIn |-> <<>>, remoteClosed |-> FALSE]
\* pushed: the lines this loop has put on the channel so far, in order
NewLoop(pc) ==
  [pc |-> pc, bufRead |-> <<>>, err |-> "nil", line |-> NoLine, pushed |-> <<>>]

\* NewExternal of part_000: dial; the state with the new Connection added
\* (its id is Len(s.conns) + 1)
NewExternal(s, server) ==
  [s EXCEPT !.conns = Append(@, NewConn(server)),
            !.net   = Append(@, NewNet)]

Nick == B(<<"n">>)
Name == B(<<"N">>)

\* NewExternal of hatcogd/external.go: dial, then register with USER and NICK
hatcogd_NewExternal(s, server) ==
  LET c      == Len(s.conns) + 1
      dialed == [s EXCEPT !.conns = Append(@, NewConn(server)),
                          !.net   = Append(@, NewNet)]
      user   == External_SendRaw(dialed, c,
                  B(<<"U", "S", "E", "R", " ">>) \o Nick
                    \o B(<<" ", "l", "o", "c", "a", "l", "h", "o", "s", "t",
                           " ", "l", "o", "c", "a", "l", "h", "o", "s", "t", " ", ":">>)
                    \o Name)
  IN  External_SendRaw(user, c, B(<<"N", "I", "C", "K", " ">>) \o Nick)

Init ==
  /\ variant \in {"manager", "hatcogd"}
  /\ proc = "running"
  /\ connections = [a \in Addrs |-> 0]
  /\ connectionsNil = FALSE
  /\ conns = <<>>
  /\ net = <<>>
  /\ loop = <<>>
  /\ fromServer = <<>>
  /\ nev = 0
  /\ last = NoCall
  /\ uni = NoUni
  /\ thr = NoThreads

Ids == 1..Len(conns)

\* a call that asks for a dial or a send
Call(op, c, arg) ==
  /\ proc = "running"
  /\ nev < MaxEvents
  /\ nev' = nev + 1
  /\ last' = [op |-> op, c |-> c, arg |-> arg, again |-> last.op = op /\ last.c = c]
  /\ UNCHANGED <<variant, uni, thr>>

\* a call that asks for neither
Manage(op, c) ==
  /\ proc = "running"
  /\ last' = [op |-> op, c |-> c, arg |-> <<>>, again |-> last.op = op /\ last.c = c]
  /\ UNCHANGED <<variant, nev, uni, thr>>

\* a step of a read loop or of the consumer
Step ==
  /\ proc = "running"
  /\ UNCHANGED <<variant, nev, last, uni, thr>>

\* a step of the server
Event ==
  /\ proc = "running"
  /\ nev < MaxEvents
  /\ nev' = nev + 1
  /\ UNCHANGED <<variant, last, uni, thr>>

Panic ==
  /\ proc' = "panic"
  /\ UNCHANGED <<conns, net>>

(***************************************************************************)
(* ExternalManager (part_000).                                             *)
(***************************************************************************)
\* the body of Connect's if: dial, store under addr (a store into the nil
\* map panics, after the dial), start the read loop
ConnectNew(addr) ==
  /\ Call("Connect", Len(conns) + 1, <<>>)
  /\ conns' = NewExternal(Here, addr).conns
  /\ net' = NewExternal(Here, addr).net
  /\ IF connectionsNil
       THEN /\ proc' = "panic"
            /\ loop' = Append(loop, NewLoop("idle"))
            /\ UNCHANGED <<connections, connectionsNil>>
       ELSE /\ proc' = proc
            /\ connections' = [connections EXCEPT ![addr] = Len(conns) + 1]
            /\ loop' = Append(loop, NewLoop("loop"))
            /\ UNCHANGED connectionsNil

\* a bug Connect could have: the map is not consulted
ExternalManager_Connect_Always(addr) ==
  /\ variant = "manager"
  /\ ConnectNew(addr)
  /\ UNCHANGED fromServer

\* Connect: only an address with no entry is dialed
ExternalManager_Connect(addr) ==
  /\ variant = "manager"
  /\ IF connections[addr] = 0
       THEN ConnectNew(addr)
       ELSE /\ Manage("Connect", connections[addr])
            /\ UNCHANGED <<proc, connections, connectionsNil, conns, net, loop>>
  /\ UNCHANGED fromServer

\* the Manager's delegating calls: a missing entry is a nil Connection,
\* and the call on it panics
ExternalManager_Identify(network, password) ==
  /\ variant = "manager"
  /\ Call("Identify", connections[network], password)
  /\ IF connections[network] = 0
       THEN Panic
       ELSE Commit(External_Identify(Here, connections[network], password))
  /\ UNCHANGED <<connections, connectionsNil, loop, fromServer>>

ExternalManager_SendMessage(network, channel, msg) ==
  /\ variant = "manager"
  /\ Call("SendMessage", connections[network], msg)
  /\ IF connections[network] = 0
       THEN Panic
       ELSE Commit(External_SendMessage(Here, connections[network], channel, msg))
  /\ UNCHANGED <<connections, connectionsNil, loop, fromServer>>

ExternalManager_SendAction(network, channel, msg) ==
  /\ variant = "manager"
  /\ Call("SendAction", connections[network], msg)
  /\ IF connections[network] = 0
       THEN Panic
       ELSE Commit(External_SendAction(Here, connections[network], channel, msg))
  /\ UNCHANGED <<connections, connectionsNil, loop, fromServer>>

ExternalManager_doCommand(network, content) ==
  /\ variant = "manager"
  /\ Call("doCommand", connections[network], content)
  /\ IF connections[network] = 0
       THEN Panic
       ELSE Commit(External_doCommand(Here, connections[network], content))
  /\ UNCHANGED <<connections, connectionsNil, loop, fromServer>>

RECURSIVE CloseAll(_, _)
\* the loop of ExternalManager.Close over the entries of the map
CloseAll(s, ids) ==
  IF ids = {} THEN s
  ELSE LET c == CHOOSE x \in ids : TRUE
       IN  CloseAll(External_Close(s, c), ids \ {c})

\* a bug Close could have: the Connections are dropped without being closed
ExternalManager_Close_NoClose ==
  /\ variant = "manager"
  /\ Manage("Close", 0)
  /\ connections' = [a \in Addrs |-> 0]
  /\ connectionsNil' = TRUE
  /\ UNCHANGED <<proc, conns, net, loop, fromServer>>

\* Close: close every Connection of the map, then drop the map
ExternalManager_Close ==
  /\ variant = "manager"
  /\ Manage("Close", 0)
  /\ Commit(CloseAll(Here, {connections[a] : a \in Addrs} \ {0}))
  /\ connections' = [a \in Addrs |-> 0]
  /\ connectionsNil' = TRUE
  /\ UNCHANGED <<loop, fromServer>>

(***************************************************************************)
(* The callers of hatcogd/external.go hold the one Connection themselves.  *)
(***************************************************************************)
hatcogd_Connect(server) ==
  /\ variant = "hatcogd"
  /\ conns = <<>>
  /\ Call("NewExternal", 1, <<>>)
  /\ Commit(hatcogd_NewExternal(Here, server))
  /\ loop' = Append(loop, NewLoop("loop"))
  /\ UNCHANGED <<connections, connectionsNil, fromServer>>

hatcogd_Call(op, c, arg, s) ==
  /\ variant = "hatcogd"
  /\ c \in Ids
  /\ Call(op, c, arg)
  /\ Commit(s)
  /\ UNCHANGED <<connections, connectionsNil, loop, fromServer>>

hatcogd_Identify(c, password) ==
  hatcogd_Call("Identify", c, password, External_Identify(Here, c, password))

hatcogd_SendMessage(c, channel, msg) ==
  hatcogd_Call("SendMessage", c, msg, External_SendMessage(Here, c, channel, msg))

hatcogd_SendAction(c, channel, msg) ==
  hatcogd_Call("SendAction", c, msg, External_SendAction(Here, c, channel, msg))

hatcogd_RunCommand(c, content) ==
  hatcogd_Call("doCommand", c, content, hatcogd_doCommand(Here, c, content))

hatcogd_Close(c) ==
  /\ variant = "hatcogd"
  /\ c \in Ids
  /\ Manage("Close", c)
  /\ Commit(External_Close(Here, c))
  /\ UNCHANGED <<connections, connectionsNil, loop, fromServer>>

hatcogd_CallQuit(c) ==
  /\ variant = "hatcogd"
  /\ c \in Ids
  /\ Manage("Quit", c)
  /\ Commit(hatcogd_Quit(Here, c))
  /\ UNCHANGED <<connections, connectionsNil, loop, fromServer>>

(***************************************************************************)
(* Consume: the read loop of one Connection.                               *)
(***************************************************************************)
\* how a read of one line ends, from the bufio buffer and the socket:
\* a line already buffered is returned without touching the socket;
\* otherwise the socket is read (a socket closed on this side fails),
\* and what is left without a newline ends in EOF once the server has
\* closed, or else in a timeout.  On an error the bytes read so far are
\* returned with it, and no longer in the buffer.
ReadLine(c) ==
  LET buf == loop[c].bufRead
      all == buf \o net[c].sockIn
      i   == Index(buf, NL)
      j   == Index(all, NL)
  IN  IF i # 0
        THEN [kind |-> "line", data |-> SubSeq(buf, 1, i),
              bufRead |-> SubSeq(buf, i + 1, Len(buf)), sockIn |-> net[c].sockIn]
      ELSE IF conns[c].socket = "closed"
        THEN [kind |-> "error", data |-> buf, bufRead |-> <<>>, sockIn |-> net[c].sockIn]
      ELSE IF j # 0
        THEN [kind |-> "line", data |-> SubSeq(all, 1, j),
              bufRead |-> SubSeq(all, j + 1, Len(all)), sockIn |-> <<>>]
      ELSE IF net[c].remoteClosed
        THEN [kind |-> "EOF", data |-> all, bufRead |-> <<>>, sockIn |-> <<>>]
      ELSE [kind |-> "timeout", data |-> all, bufRead |-> <<>>, sockIn |-> <<>>]

\* the state after the read returned r: the buffers, and err
AfterRead(c, r, pc, line) ==
  /\ loop' = [loop EXCEPT ![c] = [pc |-> pc, bufRead |-> r.bufRead,
                                   err |-> IF r.kind = "line" THEN "nil" ELSE r.kind,
                                   line |-> line, pushed |-> loop[c].pushed]]

Drained(s, c, r) == [s EXCEPT !.net[c].sockIn = r.sockIn]

\* rawLog.Println(content) after the read returned r
Logged(c, r, content) ==
  [Drained(Here, c, r) EXCEPT !.conns[c].rawLog = Append(@, LogIn(content))]

\* a bug Consume could have: a line the parser rejects is acted on too
Handle_Invalid(c, r, content, acted) ==
  /\ Commit(acted.s)
  /\ AfterRead(c, r, IF acted.forward THEN "push" ELSE "loop", ParseLine(content).line)

\* the rest of an iteration once a line was read and logged: parse it and,
\* if it parses, act on it (acted: what act makes of the line); the loop
\* is then suspended in the push when the line goes on to the channel
Handle(c, r, content, acted) ==
  IF ParseLine(content).ok
    THEN /\ Commit(acted.s)
         /\ AfterRead(c, r, IF acted.forward THEN "push" ELSE "loop", ParseLine(content).line)
    ELSE /\ Commit(Logged(c, r, content))
         /\ AfterRead(c, r, "loop", NoLine)

\* an iteration of Consume (part_000) that reads a line
Consume_line(c) ==
  /\ variant = "manager"
  /\ c \in Ids
  /\ loop[c].pc = "loop"
  /\ ReadLine(c).kind = "line"
  /\ Step
  /\ IF Len(ReadLine(c).data) = 0
       THEN /\ Commit(Drained(Here, c, ReadLine(c)))
            /\ AfterRead(c, ReadLine(c), "loop", NoLine)
       ELSE Handle(c, ReadLine(c), toUnicode(ReadLine(c).data),
                   External_act(Logged(c, ReadLine(c), toUnicode(ReadLine(c).data)), c,
                                ParseLine(toUnicode(ReadLine(c).data)).line))
  /\ UNCHANGED <<connections, connectionsNil, fromServer>>

\* a bug Consume could have: a timeout ends the loop
Consume_timeout_Return(c) ==
  /\ variant = "manager"
  /\ c \in Ids
  /\ loop[c].pc = "loop"
  /\ ReadLine(c).kind = "timeout"
  /\ Step
  /\ Commit(Drained(Here, c, ReadLine(c)))
  /\ AfterRead(c, ReadLine(c), "done", NoLine)
  /\ UNCHANGED <<connections, connectionsNil, fromServer>>

\* an iteration whose read times out: continue
Consume_timeout(c) ==
  /\ variant = "manager"
  /\ c \in Ids
  /\ loop[c].pc = "loop"
  /\ ReadLine(c).kind = "timeout"
  /\ Step
  /\ Commit(Drained(Here, c, ReadLine(c)))
  /\ AfterRead(c, ReadLine(c), "loop", NoLine)
  /\ UNCHANGED <<connections, connectionsNil, fromServer>>

\* an iteration whose read hits end-of-stream: close the socket, return
Consume_EOF(c) ==
  /\ variant = "manager"
  /\ c \in Ids
  /\ loop[c].pc = "loop"
  /\ ReadLine(c).kind = "EOF"
  /\ Step
  /\ Commit(External_Close(Drained(Here, c, ReadLine(c)), c))
  /\ AfterRead(c, ReadLine(c), "done", NoLine)
  /\ UNCHANGED <<connections, connectionsNil, fromServer>>

\* an iteration whose read fails otherwise: log.Fatal
Consume_error(c) ==
  /\ variant = "manager"
  /\ c \in Ids
  /\ loop[c].pc = "loop"
  /\ ReadLine(c).kind = "error"
  /\ Step
  /\ Commit([Here EXCEPT !.proc = "fatal"])
  /\ AfterRead(c, ReadLine(c), "loop", NoLine)
  /\ UNCHANGED <<connections, connectionsNil, fromServer>>

\* a bug act could have: a send that does not wait (select with a
\* default), so that a line is dropped when the channel is full
Consume_push_NoWait(c) ==
  /\ c \in Ids
  /\ loop[c].pc = "push"
  /\ Step
  /\ IF Len(fromServer) < ChanCap
       THEN /\ fromServer' = Append(fromServer, loop[c].line)
            /\ loop' = [loop EXCEPT ![c].pc = "loop", ![c].pushed = Append(@, loop[c].line)]
       ELSE /\ fromServer' = fromServer
            /\ loop' = [loop EXCEPT ![c].pc = "loop"]
  /\ UNCHANGED <<proc, connections, connectionsNil, conns, net>>

\* self.fromServer <- line: completes when the channel takes the line
Consume_push(c) ==
  /\ c \in Ids
  /\ loop[c].pc = "push"
  /\ Len(fromServer) < ChanCap
  /\ Step
  /\ fromServer' = Append(fromServer, loop[c].line)
  /\ loop' = [loop EXCEPT ![c].pc = "loop", ![c].pushed = Append(@, loop[c].line)]
  /\ UNCHANGED <<proc, connections, connectionsNil, conns, net>>

(***************************************************************************)
(* Consume of hatcogd/external.go.                                         *)
(***************************************************************************)
\* the top of the loop: return once isClosing is set, else go and read
hatcogd_Consume_poll(c) ==
  /\ variant = "hatcogd"
  /\ c \in Ids
  /\ loop[c].pc = "loop"
  /\ Step
  /\ loop' = [loop EXCEPT ![c].pc = IF conns[c].isClosing THEN "done" ELSE "read"]
  /\ UNCHANGED <<proc, connections, connectionsNil, conns, net, fromServer>>

\* the read returns a line (no decoding in this file)
hatcogd_Consume_line(c) ==
  /\ variant = "hatcogd"
  /\ c \in Ids
  /\ loop[c].pc = "read"
  /\ ReadLine(c).kind = "line"
  /\ Step
  /\ Handle(c, ReadLine(c), ReadLine(c).data,
            hatcogd_act(Logged(c, ReadLine(c), ReadLine(c).data), c,
                        ParseLine(ReadLine(c).data).line))
  /\ UNCHANGED <<connections, connectionsNil, fromServer>>

\* the read times out: continue
hatcogd_Consume_timeout(c) ==
  /\ variant = "hatcogd"
  /\ c \in Ids
  /\ loop[c].pc = "read"
  /\ ReadLine(c).kind = "timeout"
  /\ Step
  /\ Commit(Drained(Here, c, ReadLine(c)))
  /\ AfterRead(c, ReadLine(c), "loop", NoLine)
  /\ UNCHANGED <<connections, connectionsNil, fromServer>>

\* the read hits end-of-stream: the error is no net.Error, netErr is nil
\* and netErr.Timeout() panics
hatcogd_Consume_EOF(c) ==
  /\ variant = "hatcogd"
  /\ c \in Ids
  /\ loop[c].pc = "read"
  /\ ReadLine(c).kind = "EOF"
  /\ Step
  /\ Commit([Drained(Here, c, ReadLine(c)) EXCEPT !.proc = "panic"])
  /\ AfterRead(c, ReadLine(c), "read", NoLine)
  /\ UNCHANGED <<connections, connectionsNil, fromServer>>

\* the read fails otherwise (a net.Error that is no timeout): log.Fatal
hatcogd_Consume_error(c) ==
  /\ variant = "hatcogd"
  /\ c \in Ids
  /\ loop[c].pc = "read"
  /\ ReadLine(c).kind = "error"
  /\ Step
  /\ Commit([Here EXCEPT !.proc = "fatal"])
  /\ AfterRead(c, ReadLine(c), "read", NoLine)
  /\ UNCHANGED <<connections, connectionsNil, fromServer>>

(***************************************************************************)
(* The server and the consumer of the channel.                             *)
(***************************************************************************)
ServerWrite(c, chunk) ==
  /\ c \in Ids
  /\ conns[c].socket = "open"
  /\ ~net[c].remoteClosed
  /\ Event
  /\ net' = [net EXCEPT ![c].sockIn = @ \o chunk]
  /\ UNCHANGED <<proc, connections, connectionsNil, conns, loop, fromServer>>

ServerClose(c) ==
  /\ c \in Ids
  /\ conns[c].socket = "open"
  /\ ~net[c].remoteClosed
  /\ Event
  /\ net' = [net EXCEPT ![c].remoteClosed = TRUE]
  /\ UNCHANGED <<proc, connections, connectionsNil, conns, loop, fromServer>>

Receive ==
  /\ fromServer # <<>>
  /\ Step
  /\ fromServer' = Tail(fromServer)
  /\ UNCHANGED <<proc, connections, connectionsNil, conns, net, loop>>

Next ==
  \/ \E a \in Addrs : ExternalManager_Connect(a)
  \/ \E a \in Addrs, p \in Passwords : ExternalManager_Identify(a, p)
  \/ \E a \in Addrs : ExternalManager_SendMessage(a, Target, Msg)
  \/ \E a \in Addrs : ExternalManager_SendAction(a, Target, Msg)
  \/ \E a \in Addrs, t \in Commands : ExternalManager_doCommand(a, t)
  \/ ExternalManager_Close
  \/ \E a \in Addrs : hatcogd_Connect(a)
  \/ \E c \in Ids, p \in Passwords : hatcogd_Identify(c, p)
  \/ \E c \in Ids : hatcogd_SendMessage(c, Target, Msg)
  \/ \E c \in Ids : hatcogd_SendAction(c, Target, Msg)
  \/ \E c \in Ids, t \in Commands : hatcogd_RunCommand(c, t)
  \/ \E c \in Ids : hatcogd_Close(c)
  \/ \E c \in Ids : hatcogd_CallQuit(c)
  \/ \E c \in Ids : Consume_line(c)
  \/ \E c \in Ids : Consume_timeout(c)
  \/ \E c \in Ids : Consume_EOF(c)
  \/ \E c \in Ids : Consume_error(c)
  \/ \E c \in Ids : Consume_push(c)
  \/ \E c \in Ids : hatcogd_Consume_poll(c)
  \/ \E c \in Ids : hatcogd_Consume_line(c)
  \/ \E c \in Ids : hatcogd_Consume_timeout(c)
  \/ \E c \in Ids : hatcogd_Consume_EOF(c)
  \/ \E c \in Ids : hatcogd_Consume_error(c)
  \/ \E c \in Ids, k \in Chunks : ServerWrite(c, k)
  \/ \E c \in Ids : ServerClose(c)
  \/ Receive

Spec == Init /\ [][Next]_vars

(***************************************************************************)
(* SpecUnicode: toUnicode on every byte sequence of up to MaxBytes bytes   *)
(* drawn from ByteSample.                                                  *)
(***************************************************************************)
\* "A", "\n", C3 A9 (e acute in UTF-8), E9 (e acute in Latin-1), E2 82 AC
\* (the euro sign), F0 9F 80 80 (U+1F000), C0 (an overlong lead), ED A0 80
\* (an encoded surrogate)
ByteSample == {65, 10, 195, 169, 233, 226, 130, 172, 240, 159, 128, 192, 237, 160}

ByteSeqs == UNION {[1..n -> ByteSample] : n \in 0..MaxBytes}

InitUnicode ==
  /\ variant = "manager"
  /\ proc = "running"
  /\ connections = [a \in Addrs |-> 0]
  /\ connectionsNil = FALSE
  /\ conns = <<>>
  /\ net = <<>>
  /\ loop = <<>>
  /\ fromServer = <<>>
  /\ nev = 0
  /\ last = NoCall
  /\ \E d \in ByteSeqs : uni = [data |-> d, result |-> <<>>, done |-> FALSE]
  /\ thr = NoThreads

Decode ==
  /\ ~uni.done
  /\ uni' = [uni EXCEPT !.result = toUnicode(uni.data), !.done = TRUE]
  /\ UNCHANGED <<variant, proc, connections, connectionsNil, conns, net, loop,
                 fromServer, nev, last, thr>>

NextUnicode == Decode

SpecUnicode == InitUnicode /\ [][NextUnicode]_vars

(***************************************************************************)
(* SpecCommand: doCommand, in both files, on one established Connection    *)
(* and every text of up to MaxCmdLen tokens.                               *)
(***************************************************************************)
Tokens == {B(<<"/">>), LitMsg, B(<<" ">>), B(<<"s">>)}

RECURSIVE Flatten(_)
Flatten(ts) == IF ts = <<>> THEN <<>> ELSE Head(ts) \o Flatten(Tail(ts))

CommandTexts == {Flatten(ts) : ts \in UNION {[1..n -> Tokens] : n \in 0..MaxCmdLen}}

Nothing == [conns |-> <<>>, net |-> <<>>, proc |-> "running"]

\* the state once the Connection to server is built
Established(v, server) ==
  IF v = "manager" THEN NewExternal(Nothing, server)
                   ELSE hatcogd_NewExternal(Nothing, server)

InitCommand ==
  /\ variant \in {"manager", "hatcogd"}
  /\ \E a \in Addrs :
       /\ connections = IF variant = "manager"
                          THEN [b \in Addrs |-> IF b = a THEN 1 ELSE 0]
                          ELSE [b \in Addrs |-> 0]
       /\ conns = Established(variant, a).conns
       /\ net = Established(variant, a).net
       /\ proc = Established(variant, a).proc
  /\ connectionsNil = FALSE
  /\ loop = <<NewLoop("loop")>>
  /\ fromServer = <<>>
  /\ nev = 0
  /\ last = NoCall
  /\ uni = NoUni
  /\ thr = NoThreads

NextCommand ==
  \/ \E a \in Addrs, t \in CommandTexts : nev = 0 /\ ExternalManager_doCommand(a, t)
  \/ \E c \in Ids, t \in CommandTexts : nev = 0 /\ hatcogd_RunCommand(c, t)

SpecCommand == InitCommand /\ [][NextCommand]_vars

(***************************************************************************)
(* SpecPair: one Manager with a Connection to each of two servers, the     *)
(* read loops running, the servers writing and the consumer receiving.     *)
(***************************************************************************)
InitPair ==
  /\ variant = "manager"
  /\ \E a \in Addrs, b \in Addrs :
       /\ a # b
       /\ connections = [x \in Addrs |-> IF x = a THEN 1 ELSE IF x = b THEN 2 ELSE 0]
       /\ conns = NewExternal(NewExternal(Nothing, a), b).conns
       /\ net = NewExternal(NewExternal(Nothing, a), b).net
  /\ proc = "running"
  /\ connectionsNil = FALSE
  /\ loop = <<NewLoop("loop"), NewLoop("loop")>>
  /\ fromServer = <<>>
  /\ nev = 0
  /\ last = NoCall
  /\ uni = NoUni
  /\ thr = NoThreads

NextPair ==
  \/ \E c \in Ids, chunk \in Chunks : ServerWrite(c, chunk)
  \/ \E c \in Ids : Consume_line(c)
  \/ \E c \in Ids : Consume_timeout(c)
  \/ \E c \in Ids : Consume_push(c)
  \/ Receive

SpecPair == InitPair /\ [][NextPair]_vars

(***************************************************************************)
(* SpecRace: the Manager of part_000 called from several goroutines at     *)
(* once.  No method takes a lock, so the calls interleave statement by     *)
(* statement: Connect's test of the map, its dial and store, its go        *)
(* statement; Identify's test of isIdentified, the send, the assignment;   *)
(* SendRaw's log record and its socket write.                              *)
(***************************************************************************)
Threads == 1..NumThreads

\* a goroutine: where it is, the address and Connection of its call, the
\* text it is sending, whether the send is Identify's, and the Connections
\* whose Consume it has started with a go statement
IdleThread ==
  [pc |-> "idle", addr |-> "", c |-> 0, msg |-> <<>>, identify |-> FALSE,
   spawned |-> <<>>]

InitRace ==
  /\ variant = "manager"
  /\ proc = "running"
  /\ connections = [a \in Addrs |-> 0]
  /\ connectionsNil = FALSE
  /\ conns = <<>>
  /\ net = <<>>
  /\ loop = <<>>
  /\ fromServer = <<>>
  /\ nev = 0
  /\ last = NoCall
  /\ uni = NoUni
  /\ thr = [t \in Threads |-> IdleThread]

\* goroutine t enters a call
Begin(t) ==
  /\ proc = "running"
  /\ t \in DOMAIN thr
  /\ thr[t].pc = "idle"
  /\ nev < MaxEvents
  /\ nev' = nev + 1
  /\ UNCHANGED <<variant, last, uni, fromServer>>

\* goroutine t goes on from pc
At(t, pc) ==
  /\ proc = "running"
  /\ t \in DOMAIN thr
  /\ thr[t].pc = pc
  /\ UNCHANGED <<variant, nev, last, uni, fromServer>>

\* Connect: if self.connections[addr] == nil
Connect_check(t, addr) ==
  /\ Begin(t)
  /\ thr' = [thr EXCEPT ![t].pc = IF connections[addr] = 0 THEN "store" ELSE "idle",
                        ![t].addr = addr]
  /\ UNCHANGED <<proc, connections, connectionsNil, conns, net, loop>>

\* Connect: self.connections[addr] = NewExternal(addr, self.fromServer)
Connect_store(t) ==
  /\ At(t, "store")
  /\ ~connectionsNil
  /\ conns' = NewExternal(Here, thr[t].addr).conns
  /\ net' = NewExternal(Here, thr[t].addr).net
  /\ loop' = Append(loop, NewLoop("idle"))
  /\ connections' = [connections EXCEPT ![thr[t].addr] = Len(conns) + 1]
  /\ thr' = [thr EXCEPT ![t].pc = "go"]
  /\ UNCHANGED <<proc, connectionsNil>>

\* two goroutines storing into the map at once is a data race; the Go
\* runtime may stop the process (fatal error: concurrent map writes)
Connect_store_throw(t) ==
  /\ At(t, "store")
  /\ \E u \in DOMAIN thr : u # t /\ thr[u].pc = "store"
  /\ proc' = "fatal"
  /\ UNCHANGED <<connections, connectionsNil, conns, net, loop, thr>>

\* Connect: go self.connections[addr].Consume(), on the Connection the map
\* holds for addr at this moment
Connect_go(t) ==
  /\ At(t, "go")
  /\ loop' = [loop EXCEPT ![connections[thr[t].addr]].pc = "loop"]
  /\ thr' = [thr EXCEPT ![t].pc = "idle",
                        ![t].spawned = Append(@, connections[thr[t].addr])]
  /\ UNCHANGED <<proc, connections, connectionsNil, conns, net>>

\* "PRIVMSG " + channel + " :" + msg
Privmsg(channel, msg) ==
  B(<<"P", "R", "I", "V", "M", "S", "G", " ">>) \o channel \o B(<<" ", ":">>) \o msg

\* ExternalManager.Identify, External.Identify: if !self.isIdentified, and
\* up to SendRaw's msg = msg + "\n"; a missing map entry is a nil receiver
Identify_check(t, network, password) ==
  /\ Begin(t)
  /\ IF connections[network] = 0
       THEN proc' = "panic" /\ thr' = thr
     ELSE IF conns[connections[network]].isIdentified
       THEN proc' = proc /\ thr' = thr
     ELSE /\ proc' = proc
          /\ thr' = [thr EXCEPT ![t].pc = "log", ![t].addr = network,
                                ![t].c = connections[network],
                                ![t].msg = Privmsg(NickServ,
                                   B(<<"i", "d", "e", "n", "t", "i", "f", "y", " ">>)
                                     \o password) \o NL,
                                ![t].identify = TRUE]
  /\ UNCHANGED <<connections, connectionsNil, conns, net, loop>>

\* ExternalManager.SendMessage, External.SendMessage, up to SendRaw's
\* msg = msg + "\n"
SendMessage_call(t, network, channel, msg) ==
  /\ Begin(t)
  /\ IF connections[network] = 0
       THEN proc' = "panic" /\ thr' = thr
       ELSE /\ proc' = proc
            /\ thr' = [thr EXCEPT ![t].pc = "log", ![t].addr = network,
                                  ![t].c = connections[network],
                                  ![t].msg = Privmsg(channel, msg) \o NL,
                                  ![t].identify = FALSE]
  /\ UNCHANGED <<connections, connectionsNil, conns, net, loop>>

\* SendRaw: self.rawLog.Print(" -->", msg)
SendRaw_log(t) ==
  /\ At(t, "log")
  /\ conns' = [conns EXCEPT ![thr[t].c].rawLog = Append(@, LogOut(thr[t].msg))]
  /\ thr' = [thr EXCEPT ![t].pc = "write"]
  /\ UNCHANGED <<proc, connections, connectionsNil, net, loop>>

\* SendRaw: self.socket.Write([]byte(msg)), log.Fatal when it fails
SendRaw_write(t) ==
  /\ At(t, "write")
  /\ IF conns[thr[t].c].socket = "open"
       THEN /\ net' = [net EXCEPT ![thr[t].c].wire = Append(@, thr[t].msg)]
            /\ thr' = [thr EXCEPT ![t].pc = IF thr[t].identify THEN "set" ELSE "idle"]
            /\ proc' = proc
       ELSE /\ proc' = "fatal"
            /\ UNCHANGED <<net, thr>>
  /\ UNCHANGED <<connections, connectionsNil, conns, loop>>

\* Identify: self.isIdentified = true
Identify_set(t) ==
  /\ At(t, "set")
  /\ conns' = [conns EXCEPT ![thr[t].c].isIdentified = TRUE]
  /\ thr' = [thr EXCEPT ![t].pc = "idle"]
  /\ UNCHANGED <<proc, connections, connectionsNil, net, loop>>

NextRace ==
  \/ \E t \in Threads, a \in Addrs : Connect_check(t, a)
  \/ \E t \in Threads : Connect_store(t)
  \/ \E t \in Threads : Connect_store_throw(t)
  \/ \E t \in Threads : Connect_go(t)
  \/ \E t \in Threads, a \in Addrs, p \in Passwords : Identify_check(t, a, p)
  \/ \E t \in Threads, a \in Addrs : SendMessage_call(t, a, Target, Msg)
  \/ \E t \in Threads : SendRaw_log(t)
  \/ \E t \in Threads : SendRaw_write(t)
  \/ \E t \in Threads : Identify_set(t)

SpecRace == InitRace /\ [][NextRace]_vars

(***************************************************************************)
(* The claims.                                                             *)
(***************************************************************************)
World == <<proc, connections, connectionsNil, conns, net, loop, fromServer>>

\* the text a loop's iteration hands to the parser
Content(c) ==
  IF variant = "manager" THEN toUnicode(ReadLine(c).data) ELSE ReadLine(c).data

\* an iteration of c's read loop that reads a line
LineStep(c) == Consume_line(c) \/ hatcogd_Consume_line(c)

Range(seq) == {seq[i] : i \in DOMAIN seq}

\* "PRIVMSG NickServ :identify <password>" and the newline of SendRaw
IdentifyPrefix ==
  B(<<"P", "R", "I", "V", "M", "S", "G", " ", "N", "i", "c", "k", "S", "e", "r", "v",
      " ", ":", "i", "d", "e", "n", "t", "i", "f", "y", " ">>)
IdentifyLine(password) == IdentifyPrefix \o password \o <<10>>

\* C1: on one Manager, a Connect for an address that already has a
\* Connection dials nothing, starts no read loop and leaves the map as it
\* is (nothing of the program's state changes); and an address of the map
\* has exactly one Connection, the one the map names.
C1_ConnectTwice ==
  [][ /\ \A a \in Addrs :
           (connections[a] # 0 /\ ExternalManager_Connect(a)) => UNCHANGED World
      /\ \A a \in Addrs :
           connections'[a] # 0 =>
             {c \in 1..Len(conns') : conns'[c].server = a} = {connections'[a]}
    ]_vars

\* C1's case: Connect was called again for the address of a Connection
\* that is in the map, its socket open and its read loop started
C1_Witness ==
  /\ last.op = "Connect"
  /\ last.again
  /\ last.c \in Ids
  /\ connections[conns[last.c].server] = last.c
  /\ conns[last.c].socket = "open"
  /\ loop[last.c].pc # "idle"
  /\ {c \in Ids : conns[c].server = conns[last.c].server} = {last.c}

\* C2: an iteration that reads a line the parser accepts with command PING
\* (on a Connection whose socket is open) makes exactly one raw send, a
\* PONG, and is then suspended in the push of that same line; the push puts
\* the line on the outbound channel.
C2_PingAnsweredAndForwarded ==
  [][\A c \in Ids :
       /\ ( /\ LineStep(c)
            /\ conns[c].socket = "open"
            /\ ParseLine(Content(c)).ok
            /\ ParseLine(Content(c)).line.Command = B(<<"P", "I", "N", "G">>) )
          => /\ Len(net'[c].wire) = Len(net[c].wire) + 1
             /\ SubSeq(net'[c].wire, 1, Len(net[c].wire)) = net[c].wire
             /\ HasPrefix(net'[c].wire[Len(net'[c].wire)], B(<<"P", "O", "N", "G">>))
             /\ loop'[c].pc = "push"
             /\ loop'[c].line.Raw = Content(c)
       /\ Consume_push(c) => fromServer' = Append(fromServer, loop[c].line)
    ]_vars

\* C3: an iteration that reads a line the parser accepts with command
\* VERSION (socket open) makes exactly one raw send, whose bytes on the wire
\* are "NOTICE <User> :\x01VERSION <version>\x01" and one newline, and is
\* then suspended in the push of the line.
C3_VersionReply ==
  [][\A c \in Ids :
       ( /\ LineStep(c)
         /\ conns[c].socket = "open"
         /\ ParseLine(Content(c)).ok
         /\ ParseLine(Content(c)).line.Command = B(<<"V", "E", "R", "S", "I", "O", "N">>) )
       => /\ net'[c].wire =
               Append(net[c].wire,
                      B(<<"N", "O", "T", "I", "C", "E", " ">>)
                        \o ParseLine(Content(c)).line.User
                        \o B(<<" ", ":">>) \o <<1>>
                        \o B(<<"V", "E", "R", "S", "I", "O", "N", " ">>) \o VERSION
                        \o <<1>> \o <<10>>)
          /\ loop'[c].pc = "push"
          /\ loop'[c].line.Raw = Content(c)
    ]_vars

\* a call of Identify on Connection c
IdentifyCall(c, password) ==
  \/ hatcogd_Identify(c, password)
  \/ \E a \in Addrs : connections[a] = c /\ ExternalManager_Identify(a, password)

\* C4: on a Connection (its socket open) the Identify call that finds it
\* not identified sends exactly one line, "PRIVMSG NickServ :identify
\* <password>", and sets isIdentified; an Identify call that finds it
\* identified sends nothing and changes nothing; isIdentified never goes
\* back to false.
C4_IdentifyOnce ==
  [][ /\ \A c \in Ids, p \in Passwords :
           IdentifyCall(c, p) =>
             IF conns[c].isIdentified
               THEN UNCHANGED World
               ELSE conns[c].socket = "open" =>
                      /\ net' = [net EXCEPT ![c].wire = Append(@, IdentifyLine(p))]
                      /\ conns'[c].isIdentified
                      /\ proc' = proc
      /\ \A c \in Ids : conns[c].isIdentified => conns'[c].isIdentified
    ]_vars

\* C4's case: Identify was called again on an identified Connection, with
\* another password than the one identify line its socket carried
C4_Witness ==
  /\ last.op = "Identify"
  /\ last.again
  /\ last.c \in Ids
  /\ conns[last.c].isIdentified
  /\ Cardinality({i \in DOMAIN net[last.c].wire :
                    HasPrefix(net[last.c].wire[i], IdentifyPrefix)}) = 1
  /\ IdentifyLine(last.arg) \notin Range(net[last.c].wire)

\* what the claim says doCommand sends for a text that starts with a slash:
\* the text without the slash, a leading token msg turned into privmsg
SlashCommandText(content) ==
  LET rest == SubSeq(content, 2, Len(content))
  IN  IF /\ HasPrefix(rest, B(<<"m", "s", "g">>))
         /\ (Len(rest) = 3 \/ rest[4] = Ord(" "))
        THEN B(<<"p", "r", "i", "v", "m", "s", "g">>) \o SubSeq(rest, 4, Len(rest))
        ELSE rest

\* C5: after doCommand on a text that starts with a slash, the socket has
\* carried one more line: the text without the slash, a leading token msg
\* turned into privmsg, everything else verbatim.
C5_SlashCommand ==
  (last.op = "doCommand" /\ last.c \in Ids /\ HasPrefix(last.arg, B(<<"/">>)))
    => net[last.c].wire =
         Append(Established(variant, conns[last.c].server).net[1].wire,
                SlashCommandText(last.arg) \o <<10>>)

\* a read attempt of c's loop that ends in a timeout
TimeoutStep(c) == Consume_timeout(c) \/ hatcogd_Consume_timeout(c)

\* C6: a read attempt that ends in a timeout puts nothing on the outbound
\* channel, writes nothing to the raw log, sends nothing, leaves the socket
\* open and the process running, and the loop is back at its top, where it
\* goes on to the next read attempt: at its top a loop only ever returns on
\* end-of-stream or, in hatcogd/external.go, once isClosing is set.
C6_TimeoutContinues ==
  [][\A c \in Ids :
       /\ TimeoutStep(c) =>
            /\ fromServer' = fromServer
            /\ conns' = conns
            /\ conns'[c].socket = "open"
            /\ net'[c].wire = net[c].wire
            /\ proc' = proc
            /\ loop'[c].pc = "loop"
       /\ (loop[c].pc = "loop" /\ loop'[c].pc = "done") =>
            \/ loop'[c].err = "EOF"
            \/ variant = "hatcogd" /\ conns[c].isClosing
    ]_vars

\* C6's case: a read timed out and the loop is at its top again
C6_Witness ==
  \E c \in Ids :
    /\ loop[c].err = "timeout"
    /\ loop[c].pc = "loop"
    /\ conns[c].socket = "open"
    /\ proc = "running"

\* a read attempt of c's loop that hits end-of-stream
EOFStep(c) == Consume_EOF(c) \/ hatcogd_Consume_EOF(c)

\* C7: a read attempt that hits end-of-stream closes the socket and ends
\* this Connection's loop; the process keeps running, nothing goes on the
\* outbound channel and no Connection is dialed.
C7_EOFEndsTheLoop ==
  [][\A c \in Ids :
       EOFStep(c) =>
         /\ conns'[c].socket = "closed"
         /\ loop'[c].pc = "done"
         /\ proc' = "running"
         /\ fromServer' = fromServer
         /\ Len(conns') = Len(conns)
    ]_vars

\* an iteration of c's loop that reads a line the parser rejects
RejectStep(c) == LineStep(c) /\ ~ParseLine(Content(c)).ok

\* C8: an iteration that reads a line the parser rejects leaves the process
\* running and the loop at its top, sends nothing and puts nothing on the
\* outbound channel; every value on the outbound channel is a line the
\* parser accepted.
C8_RejectedLineDropped ==
  [][ /\ \A c \in Ids :
           RejectStep(c) =>
             /\ proc' = proc
             /\ loop'[c].pc = "loop"
             /\ net'[c].wire = net[c].wire
             /\ fromServer' = fromServer
      /\ \A i \in DOMAIN fromServer' :
           ParseLine(fromServer'[i].Raw) = [ok |-> TRUE, line |-> fromServer'[i]]
    ]_vars

\* C8's case: a loop read a line the parser rejects and, after it, a line
\* it accepts
C8_Witness ==
  \E c \in Ids :
    \E i, j \in DOMAIN conns[c].rawLog :
      /\ i < j
      /\ conns[c].rawLog[i] = BadData \o <<10>>
      /\ conns[c].rawLog[j] = PingData \o <<10>>
      /\ proc = "running"

\* C9: toUnicode returns valid UTF-8 as it is, and turns bytes that are not
\* valid UTF-8 into a text with one code point per byte, the i-th code
\* point being the value of the i-th byte.
C9_toUnicode ==
  uni.done =>
    IF Valid(uni.data)
      THEN uni.result = uni.data
      ELSE /\ Valid(uni.result)
           /\ Runes(uni.result) = uni.data

\* C9's case: bytes that are not valid UTF-8, one of them above 127, decoded
C9_Witness ==
  /\ uni.done
  /\ ~Valid(uni.data)
  /\ Len(uni.data) >= 2
  /\ \E i \in DOMAIN uni.data : uni.data[i] >= 128
  /\ Len(uni.result) > Len(uni.data)

\* C10: the Manager's Close closes the socket of every Connection of the
\* map and leaves the map without entries; it never panics, and called
\* again it changes nothing.
C10_CloseAll ==
  [][ExternalManager_Close =>
        /\ \A a \in Addrs :
             connections[a] # 0 => conns'[connections[a]].socket = "closed"
        /\ \A a \in Addrs : connections'[a] = 0
        /\ proc' = "running"
        /\ connectionsNil => UNCHANGED World
    ]_vars

\* C10's case: Close was called, and called again, on a Manager that had
\* two Connections; both sockets are closed and the map is empty
C10_Witness ==
  /\ variant = "manager"
  /\ last.op = "Close"
  /\ last.again
  /\ Len(conns) = 2
  /\ \A c \in Ids : conns[c].socket = "closed"
  /\ \A a \in Addrs : connections[a] = 0
  /\ proc = "running"


\* the reads the raw log records, in order: its entries without the
\* outbound mark, each without the newline Println added
InboundOf(log) ==
  LET isIn(e) == ~HasPrefix(e, B(<<" ", "-", "-", ">">>))
      entries == SelectSeq(log, isIn)
  IN  [i \in 1..Len(entries) |-> SubSeq(entries[i], 1, Len(entries[i]) - 1)]

\* the lines c's loop read and the parser accepted, in the order read
ParsedRead(c) ==
  LET accepted(content) == ParseLine(content).ok
      contents == SelectSeq(InboundOf(conns[c].rawLog), accepted)
  IN  [i \in 1..Len(contents) |-> ParseLine(contents[i]).line]

\* the line c's loop holds while it is suspended in the push
InFlight(c) == IF loop[c].pc = "push" THEN <<loop[c].line>> ELSE <<>>

ClosedReadStep(c) == Consume_error(c) \/ hatcogd_Consume_error(c)

\* C12: when a Connection's socket was closed on this side (External.Close
\* or the Manager's Close) while its loop runs, the read that fails ends
\* that loop, which returns, and the process keeps running.
C12_CloseEndsOnlyTheLoop ==
  [][\A c \in Ids :
       ClosedReadStep(c) => loop'[c].pc = "done" /\ proc' = "running"
    ]_vars

\* C13: in hatcogd/external.go, once Quit was called and the Consume loop
\* has returned, the Connection's socket is closed.
C13_QuitClosesTheSocket ==
  \A c \in Ids :
    (variant = "hatcogd" /\ conns[c].isClosing /\ loop[c].pc = "done")
      => conns[c].socket = "closed"

\* C14: while the read loop of one Connection of a Manager is suspended in
\* its push onto the shared channel, the loop of another Connection that
\* has a line to forward can forward it: its push can complete.
C14_LoopsIndependent ==
  \A c \in Ids, d \in Ids :
    (c # d /\ loop[c].pc = "push" /\ loop[d].pc = "push")
      => ENABLED Consume_push(d)

\* the sends the raw log records, in order: its entries with the outbound
\* mark, each without the mark
OutboundOf(log) ==
  LET isOut(e) == HasPrefix(e, B(<<" ", "-", "-", ">">>))
      entries  == SelectSeq(log, isOut)
  IN  [i \in 1..Len(entries) |-> SubSeq(entries[i], 5, Len(entries[i]))]

\* C15: whenever no goroutine is between the log record and the socket
\* write of a SendRaw on a Connection, the outbound records of its raw log
\* are, in order, the lines written to its socket.
C15_SendsSerialized ==
  \A c \in Ids :
    (\A t \in DOMAIN thr : ~(thr[t].pc = "write" /\ thr[t].c = c))
      => OutboundOf(conns[c].rawLog) = net[c].wire

\* how many Consume loops the go statements have started on Connection c
Started(c) ==
  LET RECURSIVE count(_)
      count(ts) ==
        IF ts = {} THEN 0
        ELSE LET t == CHOOSE u \in ts : TRUE
             IN  Len(SelectSeq(thr[t].spawned, LAMBDA x : x = c)) + count(ts \ {t})
  IN  count(DOMAIN thr)

\* C18: however concurrent Connect calls for one address interleave, at
\* most one Connection is dialed for the address and at most one read loop
\* is started on a Connection; a Connection with an open socket and a
\* running read loop is the one the map holds for its address.
C18_OneConnectionPerAddress ==
  /\ \A a \in Addrs : Cardinality({c \in Ids : conns[c].server = a}) <= 1
  /\ \A c \in Ids :
       /\ Started(c) <= 1
       /\ (conns[c].socket = "open" /\ Started(c) >= 1)
            => connections[conns[c].server] = c

\* the NickServ identify lines Connection c's socket has carried
IdentifyLinesOn(c) ==
  {i \in DOMAIN net[c].wire : HasPrefix(net[c].wire[i], IdentifyPrefix)}

\* C20: however concurrent Identify calls on one Connection interleave, at
\* most one NickServ identify line is written to its socket, and
\* isIdentified is true only if one was written.
C20_IdentifyOnceUnderRace ==
  \A c \in Ids :
    /\ Cardinality(IdentifyLinesOn(c)) <= 1
    /\ conns[c].isIdentified => Cardinality(IdentifyLinesOn(c)) >= 1

\* the bytes of Connection c that have arrived and were handed to no one
\* yet: those in the bufio buffer and those waiting in the socket
Arrived(c) == loop[c].bufRead \o net[c].sockIn

\* C16: a read attempt that ends in a timeout discards nothing: the bytes
\* that arrived before it, the head of a line still on its way, are there
\* for the next read, so that the line reaches the parser whole.
C16_NoBytesLost ==
  [][\A c \in Ids : TimeoutStep(c) => Arrived(c)' = Arrived(c)]_vars

\* C17: every Connection the Manager's map holds has an open socket.
C17_MapHoldsLiveConnections ==
  \A a \in Addrs :
    connections[a] # 0 => conns[connections[a]].socket = "open"

\* C19: a Connect after the Manager's Close has returned does not panic:
\* it dials a Connection, stores it in the map under the address and starts
\* its read loop.
C19_ConnectAfterClose ==
  [][\A a \in Addrs :
       (connectionsNil /\ ExternalManager_Connect(a)) =>
         /\ proc' = "running"
         /\ connections'[a] # 0
         /\ conns'[connections'[a]].socket = "open"
         /\ loop'[connections'[a]].pc = "loop"
    ]_vars

====
